---- MODULE Spec2Model ----
(***************************************************************************)
(* Block body codec of trin-types (execution/block_body.rs): the           *)
(* transaction variant codec, the RLP and SSZ framing it is nested in, the *)
(* JSON ingestion of transactions and the derivation of the two roots.     *)
(* Byte strings are sequences over 0..255 and every conversion is computed *)
(* on bytes, the way the code and the libraries it calls compute it.       *)
(***************************************************************************)
EXTENDS Integers, Sequences, FiniteSets, TLC

(***************************************************************************)
(* Bounds of the model.                                                    *)
(***************************************************************************)
\* longest `data` payload of a generated transaction
MaxData == 2
\* most storage keys of a generated access list item
MaxStorageKeys == 1
\* most transactions of a generated block body
MaxTxs == 2
\* most uncle headers of a generated block body
MaxUncles == 2
\* largest trie index whose key is compared with the others
MaxIndex == 300

(***************************************************************************)
(* Program constants.                                                      *)
(***************************************************************************)
\* typenum::U131072, the limit of the uncle blob's VariableList
MAX_ENCODED_UNCLES_LENGTH == 131072
\* width of H160 and of H256, in bytes
H160Len == 20
H256Len == 32
\* width of U256 and of U64, in bytes
U256Len == 32
U64Len == 8
\* ssz: BYTES_PER_LENGTH_OFFSET
BYTES_PER_LENGTH_OFFSET == 4

(***************************************************************************)
(* Results: a value, an error, or a panic of the thread.                   *)
(***************************************************************************)
Ok(v) == [kind |-> "ok", v |-> v]
Err(e) == [kind |-> "err", err |-> e]
Panic(m) == [kind |-> "panic", msg |-> m]
None == [kind |-> "none"]
IsOk(r) == r.kind = "ok"
IsErr(r) == r.kind = "err"

(***************************************************************************)
(* Byte helpers.                                                           *)
(***************************************************************************)

RECURSIVE Concat(_)
\* [a, b, ..].concat()
Concat(ss) == IF ss = <<>> THEN <<>> ELSE Head(ss) \o Concat(Tail(ss))

\* &b[from..], 0-based
From(b, from) == SubSeq(b, from + 1, Len(b))
\* &b[from..to], 0-based, to exclusive
Slice(b, from, to) == SubSeq(b, from + 1, to)

RECURSIVE ToBE(_)
\* minimal big-endian bytes of an unsigned integer (none for 0)
ToBE(n) == IF n = 0 THEN <<>> ELSE ToBE(n \div 256) \o <<n % 256>>

RECURSIVE FromBE(_)
\* the unsigned integer of big-endian bytes
FromBE(b) == IF b = <<>> THEN 0 ELSE FromBE(SubSeq(b, 1, Len(b) - 1)) * 256 + b[Len(b)]

(***************************************************************************)
(* rlp: RlpStream (encoding).                                              *)
(***************************************************************************)
\* the header of a payload of `len` bytes; offset 0x80 for data, 0xc0 for lists
RlpHeader(len, offset) ==
    IF len <= 55 THEN <<offset + len>>
    ELSE <<offset + 55 + Len(ToBE(len))>> \o ToBE(len)

\* a byte string as one RLP item
RlpData(b) ==
    IF Len(b) = 1 /\ b[1] < 128 THEN b ELSE RlpHeader(Len(b), 128) \o b

\* items (already encoded) as one RLP list
RlpList(items) == RlpHeader(Len(Concat(items)), 192) \o Concat(items)

\* Encodable for usize: minimal big-endian data
RlpUsize(n) == RlpData(ToBE(n))

\* A U256 or U64 value is held as its big-endian digits in base 256 without
\* leading zeros (U(n) for a small n): the values reach 2^256.
U(n) == ToBE(n)

\* impl_uint_rlp: Encodable for U256 and U64, the minimal big-endian data
RlpUint(u) == RlpData(u)

(***************************************************************************)
(* rlp: Rlp (the decoding view over a byte slice).                         *)
(***************************************************************************)
\* PayloadInfo::from / calculate_payload_info: header and value lengths.
\* A length of more than 3 bytes (not starting with 0) is at least 2^24 and
\* exceeds every slice of the model, which payload_info reports as too short.
PayloadInfoFrom(b) ==
    IF b = <<>> THEN Err("RlpIsTooShort")
    ELSE LET l == b[1]
             Long(len_of_len) ==
                 LET header_len == 1 + len_of_len IN
                 IF Len(b) < 2 THEN Err("RlpIsTooShort")
                 ELSE IF b[2] = 0 THEN Err("RlpDataLenWithZeroPrefix")
                 ELSE IF Len(b) < header_len THEN Err("RlpIsTooShort")
                 ELSE IF len_of_len > 3 THEN Err("RlpIsTooShort")
                 ELSE LET value_len == FromBE(Slice(b, 1, header_len)) IN
                      IF value_len <= 55 THEN Err("RlpInvalidIndirection")
                      ELSE Ok([header_len |-> header_len, value_len |-> value_len])
         IN IF l <= 127 THEN Ok([header_len |-> 0, value_len |-> 1])
            ELSE IF l <= 183 THEN Ok([header_len |-> 1, value_len |-> l - 128])
            ELSE IF l <= 191 THEN Long(l - 183)
            ELSE IF l <= 247 THEN Ok([header_len |-> 1, value_len |-> l - 192])
            ELSE Long(l - 247)

\* BasicDecoder::payload_info: the item must lie within the slice
PayloadInfo(b) ==
    LET Within(item) ==
            IF ~IsOk(item) THEN item
            ELSE IF item.v.header_len + item.v.value_len <= Len(b) THEN item
            ELSE Err("RlpIsTooShort")
    IN Within(PayloadInfoFrom(b))

\* Rlp::is_list, Rlp::is_empty
RlpIsList(b) == b # <<>> /\ b[1] >= 192
RlpIsEmpty(b) == b # <<>> /\ (b[1] = 192 \/ b[1] = 128)

RECURSIVE RlpConsumeItems(_, _)
\* Rlp::consume_items followed by the payload_info of the item found:
\* the raw `index`-th item (0-based) of a list payload
RlpConsumeItems(payload, index) ==
    LET Step(i) ==
            IF ~IsOk(i) THEN i
            ELSE IF index = 0
                 THEN Ok(Slice(payload, 0, i.v.header_len + i.v.value_len))
            ELSE RlpConsumeItems(From(payload, i.v.header_len + i.v.value_len),
                                 index - 1)
    IN Step(PayloadInfo(payload))

\* Rlp::at: the raw item at `index` of the list in `b`
RlpAt(b, index) ==
    LET InList(item) ==
            IF ~IsOk(item) THEN item
            ELSE RlpConsumeItems(
                    Slice(b, item.v.header_len, item.v.header_len + item.v.value_len),
                    index)
    IN IF ~RlpIsList(b) THEN Err("RlpExpectedToBeList") ELSE InList(PayloadInfo(b))

RECURSIVE RlpIterFrom(_, _)
\* RlpIterator::next: `at(index).ok()`, so the iteration ends without an error
\* at the first index at which `at` fails
RlpIterFrom(b, index) ==
    LET Yield(r) == IF IsOk(r) THEN <<r.v>> \o RlpIterFrom(b, index + 1) ELSE <<>>
    IN Yield(RlpAt(b, index))

\* Rlp::iter / Rlp::into_iter
RlpIter(b) == RlpIterFrom(b, 0)

\* BasicDecoder::decode_value: the payload of a data item
DecodeValue(b) ==
    IF b = <<>> THEN Err("RlpIsTooShort")
    ELSE LET l == b[1] IN
         IF l <= 127 THEN Ok(<<l>>)
         ELSE IF l <= 183 THEN
             LET last_index_of == 1 + l - 128 IN
             IF Len(b) < last_index_of THEN Err("RlpInconsistentLengthAndData")
             ELSE IF l = 129 /\ b[2] < 128 THEN Err("RlpInvalidIndirection")
             ELSE Ok(Slice(b, 1, last_index_of))
         ELSE IF l <= 191 THEN
             LET len_of_len == l - 183
                 begin_of_value == 1 + len_of_len IN
             IF Len(b) < begin_of_value THEN Err("RlpInconsistentLengthAndData")
             ELSE IF len_of_len > 3 THEN Err("RlpInconsistentLengthAndData")
             ELSE LET len == FromBE(Slice(b, 1, begin_of_value)) IN
                  IF Len(b) < begin_of_value + len
                  THEN Err("RlpInconsistentLengthAndData")
                  ELSE Ok(Slice(b, begin_of_value, begin_of_value + len))
         ELSE Err("RlpExpectedToBeData")

\* impl_uint_rlp: Decodable for U256 (size 32) and U64 (size 8)
DecodeUint(b, size) ==
    LET Check(d) ==
            IF ~IsOk(d) THEN d
            ELSE IF d.v # <<>> /\ d.v[1] = 0 THEN Err("RlpInvalidIndirection")
            ELSE IF Len(d.v) <= size THEN Ok(d.v)
            ELSE Err("RlpIsTooBig")
    IN Check(DecodeValue(b))

\* impl_fixed_hash_rlp: Decodable for H160 (size 20) and H256 (size 32)
DecodeHash(b, size) ==
    LET Check(d) ==
            IF ~IsOk(d) THEN d
            ELSE IF Len(d.v) < size THEN Err("RlpIsTooShort")
            ELSE IF Len(d.v) > size THEN Err("RlpIsTooBig")
            ELSE Ok(d.v)
    IN Check(DecodeValue(b))

\* Decodable for bytes::Bytes
DecodeBytes(b) == DecodeValue(b)

\* the first result of `rs` that is not Ok (the `?` of a decode in order)
FirstFault(rs) ==
    LET bad == {i \in 1..Len(rs) : ~IsOk(rs[i])} IN
    IF bad = {} THEN None
    ELSE rs[CHOOSE i \in bad : \A j \in bad : i <= j]

\* collect::<Result<Vec<_>, _>>(): the values in order, or the first fault
Collect(rs) ==
    IF FirstFault(rs) # None THEN FirstFault(rs)
    ELSE Ok([i \in 1..Len(rs) |-> rs[i].v])

(***************************************************************************)
(* Data model. A struct is a record of its fields; the derived RLP and     *)
(* serde code of a struct is driven by the table of its fields, in the     *)
(* order of declaration.                                                   *)
(***************************************************************************)
\* ToAddress::Empty and ToAddress::Exists(H160)
Empty == [tag |-> "Empty"]
Exists(addr) == [tag |-> "Exists", addr |-> addr]

\* a field: its name, its type, and its key in the JSON object
Field(name, type, key) == [name |-> name, type |-> type, key |-> key]

\* pub struct AccessListItem; serde rename_all = "camelCase"
AccessListItemFields ==
    <<Field("address", "H160", "address"),
      Field("storage_keys", "Vec<H256>", "storageKeys")>>

\* pub struct LegacyTransaction, and LegacyTransactionHelper's JSON keys:
\* rename_all = "camelCase", data renamed to "input"
LegacyTransactionFields ==
    <<Field("nonce", "U256", "nonce"), Field("gas_price", "U256", "gasPrice"),
      Field("gas", "U256", "gas"), Field("to", "ToAddress", "to"),
      Field("value", "U256", "value"), Field("data", "Bytes", "input"),
      Field("v", "U64", "v"), Field("r", "U256", "r"), Field("s", "U256", "s")>>

\* pub struct AccessListTransaction, and AccessListTransactionHelper's JSON
\* keys: gas_limit renamed to "gas", data to "input", y_parity to "v"
AccessListTransactionFields ==
    <<Field("chain_id", "U256", "chainId"), Field("nonce", "U256", "nonce"),
      Field("gas_price", "U256", "gasPrice"), Field("gas_limit", "U256", "gas"),
      Field("to", "ToAddress", "to"), Field("value", "U256", "value"),
      Field("data", "Bytes", "input"), Field("access_list", "AccessList", "accessList"),
      Field("y_parity", "U64", "v"), Field("r", "U256", "r"), Field("s", "U256", "s")>>

\* pub struct EIP1559Transaction, and EIP1559TransactionHelper's JSON keys
EIP1559TransactionFields ==
    <<Field("chain_id", "U256", "chainId"), Field("nonce", "U256", "nonce"),
      Field("max_priority_fee_per_gas", "U256", "maxPriorityFeePerGas"),
      Field("max_fee_per_gas", "U256", "maxFeePerGas"),
      Field("gas_limit", "U256", "gas"), Field("to", "ToAddress", "to"),
      Field("value", "U256", "value"), Field("data", "Bytes", "input"),
      Field("access_list", "AccessList", "accessList"),
      Field("y_parity", "U64", "v"), Field("r", "U256", "r"), Field("s", "U256", "s")>>

\* Header (header.rs): the fields of its RLP list
HeaderFields ==
    <<Field("number", "U256", "number"), Field("extra_data", "Bytes", "extraData")>>

\* the fields of a struct type
FieldsOf(type) ==
    CASE type = "LegacyTransaction" -> LegacyTransactionFields
      [] type = "AccessListTransaction" -> AccessListTransactionFields
      [] type = "EIP1559Transaction" -> EIP1559TransactionFields
      [] type = "AccessListItem" -> AccessListItemFields
      [] type = "Header" -> HeaderFields

StructTypes ==
    {"LegacyTransaction", "AccessListTransaction", "EIP1559Transaction",
     "AccessListItem", "Header"}

\* the names of a field table, and the position of a name in it
FieldNames(fields) == {fields[i].name : i \in 1..Len(fields)}
FieldIndex(fields, name) == CHOOSE i \in 1..Len(fields) : fields[i].name = name

\* TransactionId (receipts.rs): the discriminant values `as u8`
TransactionIdAsU8(id) ==
    CASE id = "Legacy" -> 0
      [] id = "AccessList" -> 1
      [] id = "EIP1559" -> 2

\* TryFrom<u8> for TransactionId (receipts.rs): 0x01 and 0x02 select the typed
\* variants, every other leading byte is a Legacy transaction
TransactionIdTryFromU8(byte) ==
    IF byte = TransactionIdAsU8("EIP1559") THEN Ok("EIP1559")
    ELSE IF byte = TransactionIdAsU8("AccessList") THEN Ok("AccessList")
    ELSE Ok("Legacy")

\* the struct a Transaction variant wraps
VariantStruct(id) ==
    CASE id = "Legacy" -> "LegacyTransaction"
      [] id = "AccessList" -> "AccessListTransaction"
      [] id = "EIP1559" -> "EIP1559Transaction"

\* Transaction::Legacy(tx), Transaction::AccessList(tx), Transaction::EIP1559(tx)
Variant(id, tx) == [type |-> id, tx |-> tx]

(***************************************************************************)
(* RLP encoding of the data model.                                         *)
(***************************************************************************)
\* Encodable for ToAddress
EncodeToAddress(to) ==
    IF to.tag = "Empty" THEN RlpData(<<>>) ELSE RlpData(to.addr)

RECURSIVE RlpEncode(_, _)

\* RlpStream::append_list: the items, each by its own Encodable, as one list
AppendList(type, list) == RlpList([i \in 1..Len(list) |-> RlpEncode(type, list[i])])

\* derive(RlpEncodable): begin_list, then every field in order
EncodeStruct(fields, v) ==
    RlpList([i \in 1..Len(fields) |-> RlpEncode(fields[i].type, v[fields[i].name])])

\* Encodable::rlp_append of a value of the type
RlpEncode(type, v) ==
    CASE type \in {"U256", "U64"} -> RlpUint(v)
      [] type \in {"H160", "H256", "Bytes"} -> RlpData(v)
      [] type = "ToAddress" -> EncodeToAddress(v)
      [] type = "Vec<H256>" -> AppendList("H256", v)
      [] type = "AccessList" -> AppendList("AccessListItem", v)
      [] type \in StructTypes -> EncodeStruct(FieldsOf(type), v)

\* Transaction::encode appending the typed payload to a stream as bytes, which
\* wraps the field list as an RLP string after the discriminant
TransactionEncodeWrapped(tx) ==
    IF tx.type = "Legacy" THEN RlpEncode("LegacyTransaction", tx.tx)
    ELSE <<TransactionIdAsU8(tx.type)>> \o RlpData(RlpEncode(VariantStruct(tx.type), tx.tx))

\* Transaction::encode
TransactionEncode(tx) ==
    IF tx.type = "Legacy" THEN RlpEncode("LegacyTransaction", tx.tx)
    ELSE IF tx.type = "AccessList"
    THEN <<TransactionIdAsU8("AccessList")>> \o RlpEncode("AccessListTransaction", tx.tx)
    ELSE <<TransactionIdAsU8("EIP1559")>> \o RlpEncode("EIP1559Transaction", tx.tx)

(***************************************************************************)
(* RLP decoding of the data model.                                         *)
(***************************************************************************)
RECURSIVE RlpDecode(_, _)

\* ToAddress decoded without the is_empty test: every item read as an H160
DecodeToAddressAsHash(b) ==
    LET Wrap(a) == IF IsOk(a) THEN Ok(Exists(a.v)) ELSE a IN
    Wrap(DecodeHash(b, H160Len))

\* Decodable for ToAddress
DecodeToAddress(b) ==
    LET Wrap(a) == IF IsOk(a) THEN Ok(Exists(a.v)) ELSE a IN
    IF RlpIsEmpty(b) THEN Ok(Empty) ELSE Wrap(DecodeHash(b, H160Len))

\* every item the iterator yields, decoded in order (Rlp::as_list, and the
\* Decodable of AccessList and of EncodableHeaderList)
DecodeList(type, b) ==
    LET Each(items) == Collect([i \in 1..Len(items) |-> RlpDecode(type, items[i])])
    IN Each(RlpIter(b))

\* Rlp::val_at / Rlp::list_at: the item at the index, then its Decodable
DecodeAt(type, b, index) ==
    LET Then(item) == IF IsOk(item) THEN RlpDecode(type, item.v) ELSE item
    IN Then(RlpAt(b, index))

\* derive(RlpDecodable): every field in order from its index, first fault kept
DecodeStruct(fields, b) ==
    LET Build(rs) ==
            IF FirstFault(rs) # None THEN FirstFault(rs)
            ELSE Ok([n \in FieldNames(fields) |-> rs[FieldIndex(fields, n)].v])
    IN Build([i \in 1..Len(fields) |-> DecodeAt(fields[i].type, b, i - 1)])

\* Decodable::decode of a value of the type
RlpDecode(type, b) ==
    CASE type = "U256" -> DecodeUint(b, U256Len)
      [] type = "U64" -> DecodeUint(b, U64Len)
      [] type = "H160" -> DecodeHash(b, H160Len)
      [] type = "H256" -> DecodeHash(b, H256Len)
      [] type = "Bytes" -> DecodeBytes(b)
      [] type = "ToAddress" -> DecodeToAddress(b)
      [] type = "Vec<H256>" -> DecodeList("H256", b)
      [] type = "AccessList" -> DecodeList("AccessListItem", b)
      [] type \in StructTypes -> DecodeStruct(FieldsOf(type), b)

\* Transaction::decode consuming the leading byte as a tag in every variant
TransactionDecodeSkippingTag(tx) ==
    LET Dispatch(id) ==
            LET Wrap(r) == IF IsOk(r) THEN Ok(Variant(id.v, r.v)) ELSE r IN
            IF ~IsOk(id) THEN Err("Unknown transaction id")
            ELSE Wrap(RlpDecode(VariantStruct(id.v), From(tx, 1)))
    IN IF tx = <<>> THEN Err("RlpIncorrectListLen")
       ELSE Dispatch(TransactionIdTryFromU8(tx[1]))

\* Transaction::decode without the is_empty test: tx[0] is out of bounds
TransactionDecodeUnchecked(tx) ==
    LET Dispatch(id) ==
            LET Wrap(r) == IF IsOk(r) THEN Ok(Variant(id.v, r.v)) ELSE r IN
            IF ~IsOk(id) THEN Err("Unknown transaction id")
            ELSE Wrap(RlpDecode(VariantStruct(id.v),
                                IF id.v = "Legacy" THEN tx ELSE From(tx, 1)))
    IN IF tx = <<>> THEN Panic("index out of bounds")
       ELSE Dispatch(TransactionIdTryFromU8(tx[1]))

\* Transaction::decode
TransactionDecode(tx) ==
    LET Dispatch(id) ==
            LET Wrap(r) == IF IsOk(r) THEN Ok(Variant(id.v, r.v)) ELSE r IN
            IF ~IsOk(id) THEN Err("Unknown transaction id")
            ELSE Wrap(RlpDecode(VariantStruct(id.v),
                                IF id.v = "Legacy" THEN tx ELSE From(tx, 1)))
    IN IF tx = <<>> THEN Err("RlpIncorrectListLen")
       ELSE Dispatch(TransactionIdTryFromU8(tx[1]))

(***************************************************************************)
(* EncodableHeaderList.                                                    *)
(***************************************************************************)
\* the encoding a derived RlpEncodable would give the one-field struct: a
\* list holding the list of headers
EncodeHeaderListDerived(list) == RlpList(<<AppendList("Header", list)>>)

\* Encodable for EncodableHeaderList: append_list(&self.list)
EncodeHeaderList(list) == AppendList("Header", list)

\* Decodable for EncodableHeaderList: every item the iterator yields
DecodeHeaderList(b) == DecodeList("Header", b)

(***************************************************************************)
(* Roots.                                                                  *)
(***************************************************************************)
\* Keccak256::digest, taken as collision-free: the digest names its input
Keccak256(b) == [keccak256 |-> b]

\* EthTrie::new over a fresh MemoryDB: no key/value pairs
TrieNew == {}

\* EthTrie::insert: an empty value removes the key, any other value replaces
\* what the key held; the trie is the set of its <<key, value>> pairs
TrieInsert(trie, key, value) ==
    IF value = <<>> THEN {p \in trie : p[1] # key}
    ELSE {p \in trie : p[1] # key} \cup {<<key, value>>}

\* EthTrie::root_hash, taken as collision-free: the root names the pairs held
TrieRootHash(trie) == [mpt_root |-> trie]

RECURSIVE InsertTxs(_, _, _)
\* the loop of transactions_root from position `index` (0-based) on
InsertTxs(trie, txs, index) ==
    IF index >= Len(txs) THEN trie
    ELSE InsertTxs(TrieInsert(trie, RlpUsize(index), TransactionEncode(txs[index + 1])),
                   txs, index + 1)

\* transactions_root with the keys counted from 1, the first insert lost
TransactionsRootFromOne(body) == Ok(TrieRootHash(InsertTxs(TrieNew, body.txs, 1)))

\* transactions_root with the path taken once, before the loop: every
\* transaction is inserted under the key of index 0
TransactionsRootSameKey(body) ==
    Ok(TrieRootHash(IF body.txs = <<>> THEN TrieNew
                    ELSE TrieInsert(TrieNew, RlpUsize(0),
                                    TransactionEncode(body.txs[Len(body.txs)]))))

\* transactions_root with each transaction stored under its own bytes
\* instead of under its index
TransactionsRootKeyedByContent(body) ==
    Ok(TrieRootHash({<<TransactionEncode(body.txs[i]), TransactionEncode(body.txs[i])>> :
                        i \in 1..Len(body.txs)}))

\* BlockBody::transactions_root
TransactionsRoot(body) == Ok(TrieRootHash(InsertTxs(TrieNew, body.txs, 0)))

\* the headers appended one after the other, with no list around them
UnclesRlpUnframed(body) ==
    Concat([i \in 1..Len(body.uncles) |-> RlpEncode("Header", body.uncles[i])])

\* the bytes BlockBody::uncles_root hashes: append_list(&self.uncles.list)
UnclesRlp(body) == AppendList("Header", body.uncles)

\* BlockBody::uncles_root
UnclesRoot(body) == Ok(Keccak256(UnclesRlp(body)))

(***************************************************************************)
(* ssz: the container EncodedBlockBodyParts.                               *)
(***************************************************************************)
\* a length offset: 4 bytes, little-endian
EncodeOffset(n) ==
    <<n % 256, (n \div 256) % 256, (n \div 65536) % 256, (n \div 16777216) % 256>>

\* ssz::read_offset on the first 4 bytes of b
ReadOffset(b) == b[1] + 256 * b[2] + 65536 * b[3] + 16777216 * b[4]

RECURSIVE SumLen(_)
SumLen(items) == IF items = <<>> THEN 0 ELSE Len(Head(items)) + SumLen(Tail(items))

\* Encode for Vec<Vec<u8>>: one offset per item, then the items
SszEncodeList(items) ==
    Concat([i \in 1..Len(items) |->
               EncodeOffset(Len(items) * BYTES_PER_LENGTH_OFFSET
                            + SumLen(SubSeq(items, 1, i - 1)))])
    \o Concat(items)

\* derive(Encode) for EncodedBlockBodyParts: two offsets, then the two fields
SszEncodeParts(parts) ==
    LET fixed == 2 * BYTES_PER_LENGTH_OFFSET
        txs == SszEncodeList(parts.encoded_txs) IN
    EncodeOffset(fixed) \o EncodeOffset(fixed + Len(txs)) \o txs \o parts.rlp_uncles

\* ssz::sanitize_offset; prev < 0 and fixed < 0 stand for None
SanitizeOffset(offset, prev, num_bytes, fixed) ==
    IF fixed >= 0 /\ offset < fixed THEN Err(<<"ssz", "OffsetIntoFixedPortion">>)
    ELSE IF prev < 0 /\ fixed >= 0 /\ offset # fixed
         THEN Err(<<"ssz", "OffsetSkipsVariableBytes">>)
    ELSE IF offset > num_bytes THEN Err(<<"ssz", "OffsetOutOfBounds">>)
    ELSE IF prev >= 0 /\ prev > offset THEN Err(<<"ssz", "OffsetsAreDecreasing">>)
    ELSE Ok(offset)

RECURSIVE SszListItems(_, _, _, _)
\* the loop of decode_list_of_variable_length_items from item i on, the
\* previous offset being `offset`
SszListItems(b, num_items, i, offset) ==
    LET Cons(next, rest) ==
            IF ~IsOk(rest) THEN rest ELSE Ok(<<Slice(b, offset, next)>> \o rest.v)
        Step(next) ==
            IF ~IsOk(next) THEN next
            ELSE Cons(next.v, SszListItems(b, num_items, i + 1, next.v))
    IN IF i > num_items THEN Ok(<<>>)
       ELSE IF i = num_items THEN Ok(<<From(b, offset)>>)
       ELSE Step(SanitizeOffset(ReadOffset(From(b, i * BYTES_PER_LENGTH_OFFSET)),
                                offset, Len(b), ReadOffset(b)))

\* Decode for Vec<Vec<u8>>
SszDecodeList(b) ==
    IF b = <<>> THEN Ok(<<>>)
    ELSE IF Len(b) < BYTES_PER_LENGTH_OFFSET THEN Err(<<"ssz", "InvalidLengthPrefix">>)
    ELSE LET first_offset == ReadOffset(b)
             first == SanitizeOffset(first_offset, -1, Len(b), first_offset) IN
         IF ~IsOk(first) THEN first
         ELSE IF first_offset % BYTES_PER_LENGTH_OFFSET # 0
                 \/ first_offset < BYTES_PER_LENGTH_OFFSET
              THEN Err(<<"ssz", "InvalidListFixedBytesLen">>)
         ELSE SszListItems(b, first_offset \div BYTES_PER_LENGTH_OFFSET, 1, first_offset)

\* derive(Decode) for EncodedBlockBodyParts
SszDecodeParts(b) ==
    LET fixed == 2 * BYTES_PER_LENGTH_OFFSET
        Fields(o2, txs) ==
            IF ~IsOk(txs) THEN txs
            ELSE Ok([encoded_txs |-> txs.v, rlp_uncles |-> From(b, o2)])
        Second(o1, o2) ==
            IF ~IsOk(o2) THEN o2
            ELSE IF o1 < fixed THEN Err(<<"ssz", "OffsetIntoFixedPortion">>)
            ELSE IF o1 > fixed THEN Err(<<"ssz", "OffsetSkipsVariableBytes">>)
            ELSE Fields(o2.v, SszDecodeList(Slice(b, o1, o2.v)))
        First(o1) ==
            IF ~IsOk(o1) THEN o1
            ELSE IF Len(b) < fixed THEN Err(<<"ssz", "InvalidByteLength">>)
            ELSE Second(o1.v, SanitizeOffset(ReadOffset(From(b, BYTES_PER_LENGTH_OFFSET)),
                                             o1.v, Len(b), -1))
    IN IF Len(b) < BYTES_PER_LENGTH_OFFSET THEN Err(<<"ssz", "InvalidByteLength">>)
       ELSE First(SanitizeOffset(ReadOffset(b), -1, Len(b), -1))

(***************************************************************************)
(* BlockBody to and from the container. A conversion from the container    *)
(* yields its result together with the byte strings it handed to           *)
(* rlp::decode as the uncle list.                                          *)
(***************************************************************************)
\* the parts of a body with the transactions collected last to first
PartsFromBodyReversed(body) ==
    [encoded_txs |-> [i \in 1..Len(body.txs) |->
                         TransactionEncode(body.txs[Len(body.txs) + 1 - i])],
     rlp_uncles |-> EncodeHeaderList(body.uncles)]

\* the parts with the uncle bytes cut to the limit of the container's field
PartsFromBodyTruncating(body) ==
    [encoded_txs |-> [i \in 1..Len(body.txs) |-> TransactionEncode(body.txs[i])],
     rlp_uncles |-> LET Cut(b) == IF Len(b) > MAX_ENCODED_UNCLES_LENGTH
                                  THEN SubSeq(b, 1, MAX_ENCODED_UNCLES_LENGTH) ELSE b
                    IN Cut(EncodeHeaderList(body.uncles))]

\* From<&BlockBody> for EncodedBlockBodyParts
PartsFromBody(body) ==
    [encoded_txs |-> [i \in 1..Len(body.txs) |-> TransactionEncode(body.txs[i])],
     rlp_uncles |-> EncodeHeaderList(body.uncles)]

\* ssz::Encode for BlockBody: as_ssz_bytes / ssz_append
AsSszBytes(body) == SszEncodeParts(PartsFromBody(body))

\* the collect() of try_from: every blob decoded in order, the first error kept
DecodeTxs(encoded_txs) ==
    Collect([i \in 1..Len(encoded_txs) |-> TransactionDecode(encoded_txs[i])])

\* VariableList::<u8, U131072>::from(Vec<u8>): keeps at most the first N bytes
VariableListFrom(vec) ==
    IF Len(vec) > MAX_ENCODED_UNCLES_LENGTH
    THEN SubSeq(vec, 1, MAX_ENCODED_UNCLES_LENGTH) ELSE vec

Traced(result, calls) == [out |-> result, rlp_calls |-> calls]

\* TryFrom<EncodedBlockBodyParts> for BlockBody
BodyTryFromParts(parts) ==
    LET Build(txs, uncles) ==
            IF ~IsOk(uncles) THEN uncles ELSE Ok([txs |-> txs, uncles |-> uncles.v])
        Uncles(txs, blob) == Traced(Build(txs, DecodeHeaderList(blob)), <<blob>>)
        Txs(txs) ==
            IF ~IsOk(txs) THEN Traced(txs, <<>>)
            ELSE Uncles(txs.v, VariableListFrom(parts.rlp_uncles))
    IN Txs(DecodeTxs(parts.encoded_txs))

\* ssz::Decode for BlockBody: from_ssz_bytes
FromSszBytes(bytes) ==
    LET MapErr(t) ==
            IF IsOk(t.out) THEN t
            ELSE Traced(Err(<<"ssz", "BytesInvalid", t.out.err>>), t.rlp_calls)
        TryInto(parts) ==
            IF ~IsOk(parts) THEN Traced(parts, <<>>)
            ELSE MapErr(BodyTryFromParts(parts.v))
    IN TryInto(SszDecodeParts(bytes))

(***************************************************************************)
(* JSON values (serde_json::Value). A string is its sequence of            *)
(* characters; an object is a function from its keys to values.            *)
(***************************************************************************)
JNull == [j |-> "null"]
JString(chars) == [j |-> "string", s |-> chars]
JArray(items) == [j |-> "array", a |-> items]
JObject(map) == [j |-> "object", m |-> map]

\* Index<&str> for Value: Null unless the value is an object holding the key
JIndex(val, key) ==
    IF val.j = "object" /\ key \in DOMAIN val.m THEN val.m[key] ELSE JNull

\* Map::extend with one entry: inserts the key, replacing what it held
JExtend(map, key, val) ==
    [k \in DOMAIN map \cup {key} |-> IF k = key THEN val ELSE map[k]]

\* the keys of the model's objects in the order serde_json's Map iterates
KeyOrder ==
    <<"accessList", "address", "chainId", "chain_id", "gas", "gasPrice", "input",
      "maxFeePerGas", "maxPriorityFeePerGas", "nonce", "r", "s", "storageKeys",
      "to", "type", "v", "value", "yParity">>

\* the value of a hexadecimal digit, -1 for any other character
HexValue(c) ==
    CASE c = "0" -> 0 [] c = "1" -> 1 [] c = "2" -> 2 [] c = "3" -> 3
      [] c = "4" -> 4 [] c = "5" -> 5 [] c = "6" -> 6 [] c = "7" -> 7
      [] c = "8" -> 8 [] c = "9" -> 9
      [] c \in {"a", "A"} -> 10 [] c \in {"b", "B"} -> 11 [] c \in {"c", "C"} -> 12
      [] c \in {"d", "D"} -> 13 [] c \in {"e", "E"} -> 14 [] c \in {"f", "F"} -> 15
      [] OTHER -> -1

HasPrefix0x(chars) == Len(chars) >= 2 /\ chars[1] = "0" /\ chars[2] = "x"
AllHex(chars) == \A i \in 1..Len(chars) : HexValue(chars[i]) >= 0

RECURSIVE StripZeros(_)
\* hexadecimal digits without their leading zeros
StripZeros(chars) ==
    IF chars # <<>> /\ chars[1] = "0" THEN StripZeros(Tail(chars)) ELSE chars

\* the U256/U64 value written by hexadecimal digits: its base-256 digits
HexToUint(chars) ==
    LET d == StripZeros(chars)
        e == IF Len(d) % 2 = 1 THEN <<"0">> \o d ELSE d IN
    [i \in 1..(Len(e) \div 2) |-> 16 * HexValue(e[2 * i - 1]) + HexValue(e[2 * i])]

\* hex::decode: an even number of hexadecimal digits, two per byte
HexToBytes(chars) ==
    IF Len(chars) % 2 # 0 THEN Err("OddLength")
    ELSE IF ~AllHex(chars) THEN Err("InvalidHexCharacter")
    ELSE Ok([i \in 1..(Len(chars) \div 2) |->
                16 * HexValue(chars[2 * i - 1]) + HexValue(chars[2 * i])])

\* trin_utils::bytes::hex_decode: "0x", then hex::decode of the rest
hex_decode(chars) ==
    IF ~HasPrefix0x(chars) THEN Err("WrongPrefix") ELSE HexToBytes(From(chars, 2))

\* Deserialize for U256 (size 32) and U64 (size 8): "0x" and 1 to 2*size digits
DeserializeUint(val, size) ==
    IF val.j # "string" THEN Err("invalid type")
    ELSE IF ~HasPrefix0x(val.s) THEN Err("invalid hex")
    ELSE LET digits == From(val.s, 2) IN
         IF Len(digits) = 0 \/ Len(digits) > 2 * size THEN Err("invalid length")
         ELSE IF ~AllHex(digits) THEN Err("invalid hex")
         ELSE Ok(HexToUint(digits))

\* Deserialize for H160 (size 20) and H256 (size 32): "0x" and 2*size digits
DeserializeHash(val, size) ==
    IF val.j # "string" THEN Err("invalid type")
    ELSE IF ~HasPrefix0x(val.s) THEN Err("invalid hex")
    ELSE IF Len(val.s) - 2 # 2 * size THEN Err("invalid length")
    ELSE HexToBytes(From(val.s, 2))

\* Deserialize for JsonBytes
DeserializeJsonBytes(val) ==
    IF val.j # "string" THEN Err("invalid type") ELSE hex_decode(val.s)

\* H160::from_slice: asserts that the slice is 20 bytes long
H160FromSlice(bytes) ==
    IF Len(bytes) = H160Len THEN Ok(bytes) ELSE Panic("assertion failed: src.len() == 20")

\* Deserialize for ToAddress: an Option<String>, hex_decode, H160::from_slice
DeserializeToAddress(val) ==
    LET Wrap(addr) == IF IsOk(addr) THEN Ok(Exists(addr.v)) ELSE addr
        FromSlice(bytes) == IF ~IsOk(bytes) THEN bytes ELSE Wrap(H160FromSlice(bytes.v))
    IN IF val.j = "null" THEN Ok(Empty)
       ELSE IF val.j # "string" THEN Err("invalid type")
       ELSE FromSlice(hex_decode(val.s))

(***************************************************************************)
(* JSON ingestion: the derived Deserialize of the helper structs and       *)
(* Deserialize for Transaction.                                            *)
(***************************************************************************)
RECURSIVE JsonDeserialize(_, _)

\* Deserialize for Vec<T>: the elements of an array in order, first fault kept
DeserializeVec(type, val) ==
    IF val.j # "array" THEN Err("invalid type")
    ELSE Collect([i \in 1..Len(val.a) |-> JsonDeserialize(type, val.a[i])])

\* derive(Deserialize) of a struct from an object: the object's entries are
\* visited in the map's order, each known key's value deserialized at once
\* (unknown keys are skipped); then every field not seen is a missing field,
\* which only ToAddress (through Option) accepts, as Empty
DeserializeStruct(fields, val) ==
    LET IndexOf(k) == CHOOSE i \in 1..Len(fields) : fields[i].key = k
        Known(k) == k \in {fields[i].key : i \in 1..Len(fields)} /\ k \in DOMAIN val.m
        present == SelectSeq(KeyOrder, Known)
        Missing(fld) == fld.key \notin DOMAIN val.m /\ fld.type # "ToAddress"
        missing == SelectSeq(fields, Missing)
        Build(rs) ==
            IF FirstFault(rs) # None THEN FirstFault(rs)
            ELSE IF missing # <<>> THEN Err(<<"missing field", missing[1].key>>)
            ELSE Ok([n \in FieldNames(fields) |->
                        LET k == fields[FieldIndex(fields, n)].key IN
                        IF k \in DOMAIN val.m
                        THEN rs[CHOOSE i \in 1..Len(present) : present[i] = k].v
                        ELSE Empty])
    IN IF val.j # "object" THEN Err("invalid type")
       ELSE Build([i \in 1..Len(present) |->
                      JsonDeserialize(fields[IndexOf(present[i])].type, val.m[present[i]])])

\* Deserialize of a field of the type; the helper structs hold `data` as
\* JsonBytes and `access_list` as Vec<AccessListItem>, which their Into
\* unwraps to Bytes and wraps in AccessList
JsonDeserialize(type, val) ==
    CASE type = "U256" -> DeserializeUint(val, U256Len)
      [] type = "U64" -> DeserializeUint(val, U64Len)
      [] type = "H160" -> DeserializeHash(val, H160Len)
      [] type = "H256" -> DeserializeHash(val, H256Len)
      [] type = "Bytes" -> DeserializeJsonBytes(val)
      [] type = "ToAddress" -> DeserializeToAddress(val)
      [] type = "Vec<H256>" -> DeserializeVec("H256", val)
      [] type = "AccessList" -> DeserializeVec("AccessListItem", val)
      [] type \in StructTypes -> DeserializeStruct(FieldsOf(type), val)

\* TryFrom<Value> for TransactionId (receipts.rs): the "type" string selects the
\* variant; a missing (Null) or unrecognized type is an error
TransactionIdTryFromValue(val) ==
    IF val.j # "string" THEN Err("Invalid tx id")
    ELSE IF val.s = <<"0", "x", "0">> THEN Ok("Legacy")
    ELSE IF val.s = <<"0", "x", "1">> THEN Ok("AccessList")
    ELSE IF val.s = <<"0", "x", "2">> THEN Ok("EIP1559")
    ELSE Err("Invalid tx id")

\* the entry Deserialize for Transaction adds to the object
InjectedChainId == [key |-> "chain_id", val |-> JString(<<"0", "x", "1">>)]

\* Deserialize for Transaction
DeserializeTransaction(val) ==
    LET Into(id, helper) == IF IsOk(helper) THEN Ok(Variant(id, helper.v)) ELSE helper
        Helper(tx_id) ==
            IF ~IsOk(tx_id) THEN tx_id
            ELSE IF val.j # "object" THEN Err("Invalid transaction id")
            ELSE Into(tx_id.v,
                      DeserializeStruct(
                          FieldsOf(VariantStruct(tx_id.v)),
                          JObject(JExtend(val.m, InjectedChainId.key, InjectedChainId.val))))
    IN Helper(TransactionIdTryFromValue(JIndex(val, "type")))

(***************************************************************************)
(* Inputs of the model.                                                    *)
(***************************************************************************)
\* all sequences over S of length at most n
SeqsUpTo(S, n) == UNION {[1..k -> S] : k \in 0..n}

Address0 == [i \in 1..H160Len |-> 0]
Address1 == [i \in 1..H160Len |-> 17]
Key0 == [i \in 1..H256Len |-> 0]
Key1 == [i \in 1..H256Len |-> 171]

ToAddresses == {Empty, Exists(Address0), Exists(Address1)}
\* payload bytes at the edges of RLP's single-byte rule
DataBytes == {0, 127, 128}
Datas == SeqsUpTo(DataBytes, MaxData)
\* integers at the edges of the one-byte, short and multi-byte encodings
Uints == {0, 1, 127, 128, 255, 65535}
AccessListItems ==
    {[address |-> Address1, storage_keys |-> ks] : ks \in SeqsUpTo({Key1}, MaxStorageKeys)}
    \cup {[address |-> Address0, storage_keys |-> <<Key0>>]}
AccessLists == SeqsUpTo(AccessListItems, 1)

\* generated transactions: every integer field holds its own value
LegacyTx(n, to, data) ==
    Variant("Legacy",
        [nonce |-> U(n), gas_price |-> U(n + 1), gas |-> U(n + 2), to |-> to,
         value |-> U(n + 3), data |-> data, v |-> U(n + 4), r |-> U(n + 5), s |-> U(n + 6)])
AccessListTx(n, to, data, al) ==
    Variant("AccessList",
        [chain_id |-> U(n + 7), nonce |-> U(n), gas_price |-> U(n + 1),
         gas_limit |-> U(n + 2), to |-> to, value |-> U(n + 3), data |-> data,
         access_list |-> al, y_parity |-> U(n + 4), r |-> U(n + 5), s |-> U(n + 6)])
EIP1559Tx(n, to, data, al) ==
    Variant("EIP1559",
        [chain_id |-> U(n + 7), nonce |-> U(n),
         max_priority_fee_per_gas |-> U(n + 1), max_fee_per_gas |-> U(n + 8),
         gas_limit |-> U(n + 2), to |-> to, value |-> U(n + 3), data |-> data,
         access_list |-> al, y_parity |-> U(n + 4), r |-> U(n + 5), s |-> U(n + 6)])

Transactions ==
    {LegacyTx(n, to, d) : n \in Uints, to \in ToAddresses, d \in Datas}
    \cup {AccessListTx(n, to, d, al) :
             n \in Uints, to \in ToAddresses, d \in Datas, al \in AccessLists}
    \cup {EIP1559Tx(n, to, d, al) :
             n \in Uints, to \in ToAddresses, d \in Datas, al \in AccessLists}

\* the transactions block bodies are built from
BodyTxs ==
    {LegacyTx(128, Exists(Address1), <<0>>),
     AccessListTx(0, Empty, <<>>, <<>>),
     EIP1559Tx(255, Exists(Address0), <<128, 127>>,
               <<[address |-> Address1, storage_keys |-> <<Key1>>]>>)}

Header1 == [number |-> U(1), extra_data |-> <<>>]
Header2 == [number |-> U(14764013), extra_data |-> <<117, 115>>]
\* a header whose RLP alone is longer than MAX_ENCODED_UNCLES_LENGTH
HeaderBig ==
    [number |-> U(2), extra_data |-> [i \in 1..MAX_ENCODED_UNCLES_LENGTH |-> 0]]
\* a header that brings the RLP of <<HeaderFill>> to MAX_ENCODED_UNCLES_LENGTH
HeaderFill ==
    [number |-> U(3), extra_data |-> [i \in 1..(MAX_ENCODED_UNCLES_LENGTH - 13) |-> 0]]

BlockBodies ==
    {[txs |-> txs, uncles |-> uncles] :
        txs \in SeqsUpTo(BodyTxs, MaxTxs), uncles \in SeqsUpTo({Header1, Header2}, MaxUncles)}
    \cup {[txs |-> <<>>, uncles |-> <<HeaderBig>>],
          [txs |-> <<>>, uncles |-> <<HeaderFill>>],
          [txs |-> <<>>, uncles |-> <<Header1, HeaderBig>>]}

\* leading bytes: the two type bytes, their neighbours, and the RLP class edges
LeadBytes == {0, 1, 2, 3, 127, 128, 183, 192, 201, 247, 248, 255}

\* byte blobs handed to Transaction::decode: nothing, a lone leading byte, a
\* leading byte before each variant's field list, and encodings cut short
TxBlobs ==
    {<<>>}
    \cup {<<l>> : l \in LeadBytes}
    \cup {<<l>> \o TransactionEncode(t) : l \in LeadBytes, t \in BodyTxs}
    \cup {<<l>> \o From(TransactionEncode(t), 1) : l \in LeadBytes, t \in BodyTxs}
    \cup {SubSeq(TransactionEncode(t), 1, k) : t \in BodyTxs, k \in 1..4}
    \cup {TransactionEncode(t) \o <<0>> : t \in BodyTxs}

\* uncle blobs of a container: well-formed lists, bytes that are no list, a
\* list whose item is no header, and a list cut one byte short
UncleBlobs ==
    {<<>>, <<192>>, <<128>>, <<1, 2, 3>>,
     EncodeHeaderList(<<Header1>>), EncodeHeaderList(<<Header2, Header1>>),
     <<193, 1>>,
     SubSeq(EncodeHeaderList(<<Header1>>), 1, Len(EncodeHeaderList(<<Header1>>)) - 1)}

\* uncle blobs at the limit of the container's field: exactly the limit (a
\* list, and bytes that are no list) and beyond it
LongUncleBlobs ==
    {EncodeHeaderList(<<HeaderFill>>),
     [i \in 1..MAX_ENCODED_UNCLES_LENGTH |-> 1],
     EncodeHeaderList(<<HeaderBig>>),
     <<192>> \o [i \in 1..MAX_ENCODED_UNCLES_LENGTH |-> 0],
     EncodeHeaderList(<<Header1>>) \o [i \in 1..MAX_ENCODED_UNCLES_LENGTH |-> 0]}

\* transaction blobs of a container
ContainerTxBlobs ==
    {TransactionEncode(t) : t \in BodyTxs} \cup {<<>>, <<1>>, <<2, 192>>, <<3>>}

\* container bytes handed to from_ssz_bytes: encoded parts, and bytes whose
\* offsets are cut short or wrong
Containers ==
    {SszEncodeParts([encoded_txs |-> txs, rlp_uncles |-> u]) :
        txs \in SeqsUpTo(ContainerTxBlobs, MaxTxs), u \in UncleBlobs}
    \cup {SszEncodeParts([encoded_txs |-> txs, rlp_uncles |-> u]) :
             txs \in {<<>>, <<<<>>>>, <<TransactionEncode(LegacyTx(1, Empty, <<>>))>>},
             u \in LongUncleBlobs}
    \cup {<<>>, <<8, 0, 0>>, <<8, 0, 0, 0>>, <<8, 0, 0, 0, 8, 0, 0>>,
          <<4, 0, 0, 0, 8, 0, 0, 0>>, <<9, 0, 0, 0, 9, 0, 0, 0, 0>>,
          <<8, 0, 0, 0, 9, 0, 0, 0>>, <<8, 0, 0, 0, 7, 0, 0, 0>>,
          <<8, 0, 0, 0, 10, 0, 0, 0, 1, 0>>, <<8, 0, 0, 0, 12, 0, 0, 0, 3, 0, 0, 0>>,
          <<8, 0, 0, 0, 16, 0, 0, 0, 8, 0, 0, 0, 7, 0, 0, 0>>,
          <<8, 0, 0, 0, 16, 0, 0, 0, 8, 0, 0, 0, 9, 0, 0, 0>>}

\* JSON strings
Hex0 == JString(<<"0", "x", "0">>)
Hex1 == JString(<<"0", "x", "1">>)
Hex2 == JString(<<"0", "x", "2">>)
Hex5 == JString(<<"0", "x", "5">>)
HexEmpty == JString(<<"0", "x">>)
HexBytes == JString(<<"0", "x", "1", "2", "a", "B">>)
HexBad == JString(<<"0", "x", "z", "z">>)
HexAddress == JString(<<"0", "x">> \o [i \in 1..(2 * H160Len) |-> "1"])
HexKey == JString(<<"0", "x">> \o [i \in 1..(2 * H256Len) |-> "a"])
JsonAccessList ==
    JArray(<<JObject([address |-> HexAddress, storageKeys |-> JArray(<<HexKey>>)])>>)

\* a well-formed transaction object of each type, as the JSON API gives it
JsonLegacy ==
    [type |-> Hex0, nonce |-> Hex5, gasPrice |-> Hex1, gas |-> Hex2,
     to |-> HexAddress, value |-> Hex0, input |-> HexBytes, v |-> Hex1,
     r |-> Hex2, s |-> Hex5]
JsonAccessListTx ==
    [type |-> Hex1, chainId |-> Hex5, nonce |-> Hex5, gasPrice |-> Hex1, gas |-> Hex2,
     to |-> HexAddress, value |-> Hex0, input |-> HexEmpty,
     accessList |-> JsonAccessList, v |-> Hex1, r |-> Hex2, s |-> Hex5]
JsonEIP1559 ==
    [type |-> Hex2, chainId |-> Hex5, nonce |-> Hex5, maxPriorityFeePerGas |-> Hex1,
     maxFeePerGas |-> Hex2, gas |-> Hex2, to |-> JNull, value |-> Hex0,
     input |-> HexBytes, accessList |-> JArray(<<>>), v |-> Hex0, r |-> Hex2,
     s |-> Hex5]
JsonBases == {JsonLegacy, JsonAccessListTx, JsonEIP1559}

\* one change to an object: a key removed, or set to a value
JsonKeys ==
    {"type", "chainId", "chain_id", "nonce", "gasPrice", "gas", "to", "value",
     "input", "accessList", "v", "r", "s", "maxFeePerGas", "maxPriorityFeePerGas",
     "yParity"}
JsonValues ==
    {JNull, Hex1, Hex5, HexBad, HexBytes, HexAddress, JString(<<"0", "x", "3">>),
     JsonAccessList}
JsonChanges ==
    {[key |-> k, remove |-> TRUE, val |-> JNull] : k \in JsonKeys}
    \cup {[key |-> k, remove |-> FALSE, val |-> v] : k \in JsonKeys, v \in JsonValues}
JsonApply(map, c) ==
    IF c.remove THEN [k \in DOMAIN map \ {c.key} |-> map[k]]
    ELSE JExtend(map, c.key, c.val)

\* JSON values handed to Deserialize for Transaction
JsonTxs ==
    {JNull, JArray(<<>>), JArray(<<Hex1>>), Hex1, HexBad}
    \cup {JObject(JsonApply(JsonApply(b, c1), c2)) :
             b \in JsonBases, c1 \in JsonChanges,
             c2 \in {c \in JsonChanges :
                       c.key \in {"to", "type", "chainId", "value", "nonce"}}}

\* JSON values handed to Deserialize for ToAddress
JsonTos ==
    {JNull, HexAddress, HexEmpty, HexBytes, HexBad, Hex1, JArray(<<>>),
     JString(<<>>), JString(<<"1", "2">>),
     JString(<<"0", "x">> \o [i \in 1..(2 * H160Len + 2) |-> "f"])}

\* RLP items handed to Decodable for ToAddress: the empty string and the
\* empty list, strings of every length around 20 bytes, and other lists
ToItems ==
    {<<128>>, <<192>>, <<193, 128>>, RlpList(<<RlpData(Address1)>>)}
    \cup {RlpData([i \in 1..n |-> x]) : n \in 0..(H160Len + 2), x \in {0, 17, 255}}

(***************************************************************************)
(* The state machine: an input is given, and the operations of the codec   *)
(* are applied to it.                                                      *)
(***************************************************************************)
VARIABLES
    input,        \* the value, byte blob or JSON value the caller holds
    wire,         \* the bytes the last encode produced (<<>> before any)
    out,          \* the result of the last decode, ingestion or root call
    rlp_calls,    \* the uncle blobs the last from_ssz_bytes gave to rlp::decode
    pc            \* the last operation applied ("start" before any)

vars == <<input, wire, out, rlp_calls, pc>>

Init ==
    /\ \/ \E t \in Transactions : input = [kind |-> "tx", v |-> t]
       \/ \E b \in TxBlobs : input = [kind |-> "tx_bytes", v |-> b]
       \/ \E b \in BlockBodies : input = [kind |-> "body", v |-> b]
       \/ \E c \in Containers : input = [kind |-> "container", v |-> c]
       \/ \E j \in JsonTxs : input = [kind |-> "json_tx", v |-> j]
       \/ \E j \in JsonTos : input = [kind |-> "json_to", v |-> j]
       \/ \E to \in ToAddresses : input = [kind |-> "to", v |-> to]
       \/ \E b \in ToItems : input = [kind |-> "to_item", v |-> b]
    /\ wire = <<>>
    /\ out = None
    /\ rlp_calls = <<>>
    /\ pc = "start"

\* tx.encode() on the transaction held
EncodeTx ==
    /\ input.kind = "tx" /\ pc = "start"
    /\ wire' = TransactionEncode(input.v)
    /\ pc' = "tx_encoded"
    /\ UNCHANGED <<input, out, rlp_calls>>

\* Transaction::decode on the bytes just encoded
DecodeEncodedTx ==
    /\ input.kind = "tx" /\ pc = "tx_encoded"
    /\ out' = TransactionDecode(wire)
    /\ pc' = "tx_decoded"
    /\ UNCHANGED <<input, wire, rlp_calls>>

\* Transaction::decode on a byte blob from outside
DecodeTxBlob ==
    /\ input.kind = "tx_bytes" /\ pc = "start"
    /\ out' = TransactionDecode(input.v)
    /\ pc' = "tx_decoded"
    /\ UNCHANGED <<input, wire, rlp_calls>>

\* body.as_ssz_bytes()
EncodeBody ==
    /\ input.kind = "body" /\ pc = "start"
    /\ wire' = AsSszBytes(input.v)
    /\ pc' = "body_encoded"
    /\ UNCHANGED <<input, out, rlp_calls>>

\* BlockBody::from_ssz_bytes on the bytes just encoded
DecodeEncodedBody ==
    LET Return(t) == out' = t.out /\ rlp_calls' = t.rlp_calls IN
    /\ input.kind = "body" /\ pc = "body_encoded"
    /\ Return(FromSszBytes(wire))
    /\ pc' = "body_decoded"
    /\ UNCHANGED <<input, wire>>

\* BlockBody::from_ssz_bytes on container bytes from outside
DecodeContainer ==
    LET Return(t) == out' = t.out /\ rlp_calls' = t.rlp_calls IN
    /\ input.kind = "container" /\ pc = "start"
    /\ Return(FromSszBytes(input.v))
    /\ pc' = "body_decoded"
    /\ UNCHANGED <<input, wire>>

\* transactions_root taking the transactions out of the body as it inserts them
CallTransactionsRootDraining ==
    /\ input.kind = "body" /\ pc \in {"start", "transactions_root", "uncles_root"}
    /\ out' = TransactionsRoot(input.v)
    /\ input' = [input EXCEPT !.v.txs = <<>>]
    /\ pc' = "transactions_root"
    /\ UNCHANGED <<wire, rlp_calls>>

\* body.transactions_root(), at any time and any number of times
CallTransactionsRoot ==
    /\ input.kind = "body" /\ pc \in {"start", "transactions_root", "uncles_root"}
    /\ out' = TransactionsRoot(input.v)
    /\ pc' = "transactions_root"
    /\ UNCHANGED <<input, wire, rlp_calls>>

\* body.uncles_root(), at any time and any number of times
CallUnclesRoot ==
    /\ input.kind = "body" /\ pc \in {"start", "transactions_root", "uncles_root"}
    /\ out' = UnclesRoot(input.v)
    /\ pc' = "uncles_root"
    /\ UNCHANGED <<input, wire, rlp_calls>>

\* serde: Transaction::deserialize on a JSON value
IngestTransaction ==
    /\ input.kind = "json_tx" /\ pc = "start"
    /\ out' = DeserializeTransaction(input.v)
    /\ pc' = "ingested"
    /\ UNCHANGED <<input, wire, rlp_calls>>

\* serde: ToAddress::deserialize on a JSON value
IngestToAddress ==
    /\ input.kind = "json_to" /\ pc = "start"
    /\ out' = DeserializeToAddress(input.v)
    /\ pc' = "ingested"
    /\ UNCHANGED <<input, wire, rlp_calls>>

\* rlp::encode of a ToAddress
EncodeTo ==
    /\ input.kind = "to" /\ pc = "start"
    /\ wire' = EncodeToAddress(input.v)
    /\ pc' = "to_encoded"
    /\ UNCHANGED <<input, out, rlp_calls>>

\* ToAddress::decode on an RLP item from outside
DecodeToItem ==
    /\ input.kind = "to_item" /\ pc = "start"
    /\ out' = DecodeToAddress(input.v)
    /\ pc' = "to_decoded"
    /\ UNCHANGED <<input, wire, rlp_calls>>

Next ==
    \/ EncodeTx
    \/ DecodeEncodedTx
    \/ DecodeTxBlob
    \/ EncodeBody
    \/ DecodeEncodedBody
    \/ DecodeContainer
    \/ CallTransactionsRoot
    \/ CallUnclesRoot
    \/ IngestTransaction
    \/ IngestToAddress
    \/ EncodeTo
    \/ DecodeToItem

Spec == Init /\ [][Next]_vars

(***************************************************************************)
(* Properties.                                                             *)
(***************************************************************************)
\* C1: for every transaction t of the three variants, with empty or
\* non-empty data and access list and with to Empty or Exists, decoding
\* the bytes Transaction::encode(t) gives succeeds and returns t itself.
C1_TransactionRoundTrip ==
    (input.kind = "tx" /\ pc = "tx_decoded") => out = Ok(input.v)

\* a typed transaction with no data, no access list and no recipient has
\* been encoded and decoded back
C1_Witness ==
    /\ input.kind = "tx" /\ pc = "tx_decoded"
    /\ input.v.type = "AccessList"
    /\ input.v.tx.data = <<>> /\ input.v.tx.access_list = <<>>
    /\ input.v.tx.to = Empty
    /\ out = Ok(input.v)

\* C2 as stated: for every block body, of any number of transactions and
\* uncles, from_ssz_bytes of as_ssz_bytes succeeds and returns the body.
C2_BodyRoundTripAny ==
    (input.kind = "body" /\ pc = "body_decoded") => out = Ok(input.v)

\* C2 amended: the container round trip returns the body when the RLP list
\* of its uncles is at most MAX_ENCODED_UNCLES_LENGTH bytes long.
C2_BodyRoundTripWithinLimit ==
    (/\ input.kind = "body" /\ pc = "body_decoded"
     /\ Len(EncodeHeaderList(input.v.uncles)) <= MAX_ENCODED_UNCLES_LENGTH)
    => out = Ok(input.v)

\* a body of several transactions and uncles has gone through the container
C2_Witness ==
    /\ input.kind = "body" /\ pc = "body_decoded"
    /\ Len(input.v.txs) >= 2 /\ Len(input.v.uncles) >= 2
    /\ input.v.txs[1] # input.v.txs[2] /\ input.v.uncles[1] # input.v.uncles[2]
    /\ out = Ok(input.v)

C4_EmptyBlobIsError ==
    /\ (input.kind = "tx_bytes" /\ pc = "tx_decoded" /\ input.v = <<>>) => IsErr(out)
    /\ (input.kind = "container" /\ pc = "body_decoded") =>
          LET HasEmpty(parts) ==
                  IsOk(parts) /\ \E i \in 1..Len(parts.v.encoded_txs) :
                                      parts.v.encoded_txs[i] = <<>>
          IN HasEmpty(SszDecodeParts(input.v)) => IsErr(out)

\* a container whose second transaction blob is empty has been refused
C4_Witness ==
    /\ input.kind = "container" /\ pc = "body_decoded"
    /\ LET Second(parts) ==
               /\ IsOk(parts) /\ Len(parts.v.encoded_txs) = 2
               /\ IsOk(TransactionDecode(parts.v.encoded_txs[1]))
               /\ parts.v.encoded_txs[2] = <<>>
       IN Second(SszDecodeParts(input.v))
    /\ out = Err(<<"ssz", "BytesInvalid", "RlpIncorrectListLen">>)

\* C5: from_ssz_bytes of a container whose rlp_uncles field is longer than
\* 131072 bytes returns a container decode error, and nothing of that field
\* has been handed to rlp::decode.
C5_OversizedUnclesRejected ==
    (input.kind = "container" /\ pc = "body_decoded") =>
        LET Oversized(parts) ==
                IsOk(parts) /\ Len(parts.v.rlp_uncles) > MAX_ENCODED_UNCLES_LENGTH
        IN Oversized(SszDecodeParts(input.v)) => (IsErr(out) /\ rlp_calls = <<>>)

\* C6: ingesting a typed transaction object that has no chainId and is
\* well-formed otherwise (it ingests once a chainId is supplied) succeeds
\* with chain_id = 1; an object that carries a chainId keeps its own value.
C6_ChainIdDefault ==
    (input.kind = "json_tx" /\ pc = "ingested" /\ input.v.j = "object") =>
        LET m == input.v.m
            typed == JIndex(input.v, "type") \in {Hex1, Hex2}
            WithChainId == JObject(JExtend(m, "chainId", Hex5))
        IN /\ (typed /\ "chainId" \notin DOMAIN m
                     /\ IsOk(DeserializeTransaction(WithChainId)))
              => (IsOk(out) /\ out.v.tx.chain_id = U(1))
           /\ (typed /\ "chainId" \in DOMAIN m /\ IsOk(out))
              => Ok(out.v.tx.chain_id) = DeserializeUint(m["chainId"], U256Len)

\* C7: ingestion returns an error whenever the type is missing or not
\* recognized, the input is no object, or a field of the selected variant
\* holds a value that fails to decode; it returns a transaction only when
\* every field the variant requires is present and decoded.
C7_IngestErrors ==
    (input.kind = "json_tx" /\ pc = "ingested") =>
        LET id == TransactionIdTryFromValue(JIndex(input.v, "type"))
            fields == FieldsOf(VariantStruct(id.v))
            Parsed(f) == IsOk(JsonDeserialize(f.type, input.v.m[f.key]))
            present == {i \in 1..Len(fields) : fields[i].key \in DOMAIN input.v.m}
        IN /\ (~IsOk(id) \/ input.v.j # "object") => IsErr(out)
           /\ (IsOk(id) /\ input.v.j = "object"
                        /\ \E i \in present : ~Parsed(fields[i])) => IsErr(out)
           /\ IsOk(out) =>
                /\ IsOk(id) /\ input.v.j = "object" /\ out.v.type = id.v
                /\ \A i \in 1..Len(fields) :
                      \/ i \in present /\ Parsed(fields[i])
                      \/ i \notin present /\ fields[i].type = "ToAddress"

\* C8: no operation on input from outside ends in a panic: decoding a
\* transaction blob or a container and ingesting a transaction or a `to`
\* value return a value or an error; a `to` string of well-formed hex that
\* is not 20 bytes long is an error, and so are the blobs [0x01] and [0x02].
C8_NoPanic ==
    /\ pc \in {"tx_decoded", "body_decoded", "ingested"} => (IsOk(out) \/ IsErr(out))
    /\ (/\ input.kind = "json_to" /\ pc = "ingested" /\ input.v.j = "string"
        /\ IsOk(hex_decode(input.v.s)) /\ Len(hex_decode(input.v.s).v) # H160Len)
       => IsErr(out)
    /\ (input.kind = "tx_bytes" /\ pc = "tx_decoded" /\ input.v \in {<<1>>, <<2>>})
       => IsErr(out)

\* C9: transactions_root starts from an empty trie and inserts, for i from 0
\* to N-1 in order, RLP(i) -> encode(txs[i]); it returns the root of the
\* trie of exactly these N pairs, the empty trie's root when there are none.
C9_TransactionsRoot ==
    (input.kind = "body" /\ pc = "transactions_root") =>
        LET txs == input.v.txs
            pairs == {<<RlpUsize(i), TransactionEncode(txs[i + 1])>> : i \in 0..(Len(txs) - 1)}
        IN /\ out = Ok(TrieRootHash(pairs))
           /\ Cardinality(pairs) = Len(txs)
           /\ Cardinality({p[1] : p \in pairs}) = Len(txs)
           /\ txs = <<>> => out = Ok(TrieRootHash(TrieNew))

\* the root of a body of two different transactions has been derived
C9_Witness ==
    /\ input.kind = "body" /\ pc = "transactions_root"
    /\ Len(input.v.txs) = 2 /\ input.v.txs[1] # input.v.txs[2]
    /\ IsOk(out) /\ Cardinality(out.v.mpt_root) = 2

\* C10: uncles_root always returns Ok(Keccak256(bytes)), the bytes being a
\* single RLP list of the uncle headers, each encoded as a header, in their
\* stored order; with no uncles the bytes are the one byte 0xc0.
C10_UnclesRoot ==
    (input.kind = "body" /\ pc = "uncles_root") =>
        LET uncles == input.v.uncles
            Framed(h, info) ==
                /\ RlpIsList(h) /\ IsOk(info)
                /\ info.v.header_len + info.v.value_len = Len(h)
                /\ From(h, info.v.header_len)
                     = Concat([i \in 1..Len(uncles) |-> RlpEncode("Header", uncles[i])])
        IN /\ IsOk(out)
           /\ out.v = Keccak256(out.v.keccak256)
           /\ Framed(out.v.keccak256, PayloadInfo(out.v.keccak256))
           /\ DecodeHeaderList(out.v.keccak256) = Ok(uncles)
           /\ uncles = <<>> => out.v = Keccak256(<<192>>)

\* the uncles of a body of two different headers have been hashed
C10_Witness ==
    /\ input.kind = "body" /\ pc = "uncles_root"
    /\ Len(input.v.uncles) = 2 /\ input.v.uncles[1] # input.v.uncles[2]
    /\ IsOk(out) /\ DecodeHeaderList(out.v.keccak256) = Ok(input.v.uncles)

C12_WireRoundTrip ==
    (input.kind = "tx_bytes" /\ pc = "tx_decoded" /\ IsOk(out)) =>
        TransactionEncode(out.v) = input.v

\* C13: with the trie root and Keccak256 collision-free, the roots are
\* sensitive to content and order: a body whose transaction list is a
\* proper prefix of this one's, or has one transaction replaced by a
\* different one, or has two distinct transactions exchanged, has another
\* transactions_root; a body with an uncle added, doubled or removed, or
\* with two distinct uncles exchanged, has another uncles_root.
C13_RootsSensitive ==
    LET Without(s, i) == SubSeq(s, 1, i - 1) \o SubSeq(s, i + 1, Len(s))
        InsertAt(s, i, h) == SubSeq(s, 1, i - 1) \o <<h>> \o SubSeq(s, i, Len(s))
        Swap(s, i, j) == [s EXCEPT ![i] = s[j], ![j] = s[i]]
        txs == input.v.txs
        uncles == input.v.uncles
        Truncated == {SubSeq(txs, 1, k) : k \in 0..(Len(txs) - 1)}
        Replaced == {[txs EXCEPT ![i] = t] : i \in 1..Len(txs), t \in BodyTxs} \ {txs}
        Permuted == {Swap(txs, i, j) : i \in 1..Len(txs), j \in 1..Len(txs)} \ {txs}
        Added == {InsertAt(uncles, i, h) : i \in 1..(Len(uncles) + 1), h \in {Header1, Header2}}
        Duplicated == {InsertAt(uncles, i, uncles[i]) : i \in 1..Len(uncles)}
        Removed == {Without(uncles, i) : i \in 1..Len(uncles)}
        Reordered == {Swap(uncles, i, j) : i \in 1..Len(uncles), j \in 1..Len(uncles)} \ {uncles}
    IN /\ (input.kind = "body" /\ pc = "transactions_root") =>
              \A other \in Truncated \cup Replaced \cup Permuted :
                  TransactionsRoot([input.v EXCEPT !.txs = other]) # out
       /\ (input.kind = "body" /\ pc = "uncles_root") =>
              \A other \in Added \cup Duplicated \cup Removed \cup Reordered :
                  UnclesRoot([input.v EXCEPT !.uncles = other]) # out

\* a root has been taken of a body with two different transactions and two
\* different uncles, so every kind of change has a body to compare with
C13_Witness ==
    /\ input.kind = "body" /\ pc \in {"transactions_root", "uncles_root"}
    /\ Len(input.v.txs) = 2 /\ input.v.txs[1] # input.v.txs[2]
    /\ Len(input.v.uncles) = 2 /\ input.v.uncles[1] # input.v.uncles[2]
    /\ IsOk(out)

\* C14: Transaction::encode gives, for a Legacy transaction, exactly the RLP
\* list of its fields with no byte before it; for an AccessList transaction
\* the byte 0x01 and for an EIP1559 transaction the byte 0x02, followed by
\* the RLP list of its fields; what follows the discriminant is the list
\* itself (its header covers all that remains), not a string holding it.
C14_EncodeFraming ==
    (input.kind = "tx" /\ pc = "tx_encoded") =>
        LET fields == FieldsOf(VariantStruct(input.v.type))
            items == [i \in 1..Len(fields) |->
                         RlpEncode(fields[i].type, input.v.tx[fields[i].name])]
            payload == IF input.v.type = "Legacy" THEN wire ELSE From(wire, 1)
            info == PayloadInfo(payload)
        IN /\ input.v.type = "Legacy" => wire = RlpList(items)
           /\ input.v.type = "AccessList" => wire = <<1>> \o RlpList(items)
           /\ input.v.type = "EIP1559" => wire = <<2>> \o RlpList(items)
           /\ RlpIsList(payload)
           /\ IsOk(info) /\ info.v.header_len + info.v.value_len = Len(payload)
           /\ RlpIter(payload) = items

\* an EIP1559 transaction with data and an access list has been encoded
C14_Witness ==
    /\ input.kind = "tx" /\ pc = "tx_encoded"
    /\ input.v.type = "EIP1559"
    /\ input.v.tx.data # <<>> /\ input.v.tx.access_list # <<>>
    /\ wire[1] = 2 /\ wire[2] >= 192

\* C15: the RLP codec of ToAddress: Empty encodes as the zero-length string
\* (0x80) and Exists(addr) as the 20-byte string item; on decode only the
\* zero-length string item gives Empty, and every other item, the empty
\* list included, is read as a 20-byte value: Exists of the 20 bytes of a
\* 20-byte string item, an error for everything else.
C15_ToAddressCodec ==
    /\ (input.kind = "to" /\ pc = "to_encoded") =>
          wire = IF input.v = Empty THEN <<128>>
                 ELSE <<128 + H160Len>> \o input.v.addr
    /\ (input.kind = "to_item" /\ pc = "to_decoded") =>
          IF input.v = <<128>> THEN out = Ok(Empty)
          ELSE IF Len(input.v) = H160Len + 1 /\ input.v[1] = 128 + H160Len
               THEN out = Ok(Exists(From(input.v, 1)))
          ELSE IsErr(out)

\* C16: decoding a container is all-or-nothing and first-fault: when some
\* element of encoded_txs fails Transaction::decode, from_ssz_bytes returns
\* the ssz error carrying the RLP error of the first failing element,
\* without the uncle blob having been examined; when the uncle blob is not
\* the RLP of a list of headers, it returns an ssz error; and a BlockBody
\* is returned only with every transaction and every uncle decoded.
C16_AllOrNothing ==
    (input.kind = "container" /\ pc = "body_decoded"
        /\ IsOk(SszDecodeParts(input.v))) =>
        LET parts == SszDecodeParts(input.v).v
            rs == [i \in 1..Len(parts.encoded_txs) |->
                      TransactionDecode(parts.encoded_txs[i])]
            bad == {i \in 1..Len(rs) : ~IsOk(rs[i])}
            first == CHOOSE i \in bad : \A j \in bad : i <= j
            blob == parts.rlp_uncles
            items == RlpIter(blob)
            UnclesFail ==
                \/ ~RlpIsList(blob)
                \/ ~IsOk(PayloadInfo(blob))
                \/ Len(Concat(items)) # PayloadInfo(blob).v.value_len
                \/ \E i \in 1..Len(items) : ~IsOk(RlpDecode("Header", items[i]))
        IN /\ bad # {} =>
                /\ out = Err(<<"ssz", "BytesInvalid", rs[first].err>>)
                /\ rlp_calls = <<>>
           /\ (bad = {} /\ UnclesFail) =>
                /\ IsErr(out)
                /\ out.err[1] = "ssz" /\ out.err[2] = "BytesInvalid"
           /\ IsOk(out) =>
                /\ bad = {}
                /\ out.v.txs = [i \in 1..Len(rs) |-> rs[i].v]
                /\ Len(out.v.uncles) = Len(items)

\* C17: encoding a body as a container never enforces the 131072-byte bound
\* on the uncles: for every body, also one whose RLP-encoded uncle list is
\* longer than 131072 bytes, the output's encoded_txs holds
\* Transaction::encode of each transaction in order and its rlp_uncles, the
\* last field of the output, holds the whole RLP of the uncle list.
C17_EncodeUnbounded ==
    (input.kind = "body" /\ pc = "body_encoded") =>
        LET uncles_rlp == RlpList([i \in 1..Len(input.v.uncles) |->
                                      RlpEncode("Header", input.v.uncles[i])])
            Holds(parts) ==
                /\ IsOk(parts)
                /\ parts.v.encoded_txs =
                      [i \in 1..Len(input.v.txs) |-> TransactionEncode(input.v.txs[i])]
                /\ parts.v.rlp_uncles = uncles_rlp
        IN /\ Holds(SszDecodeParts(wire))
           /\ Len(wire) >= 2 * BYTES_PER_LENGTH_OFFSET + Len(uncles_rlp)
           /\ From(wire, Len(wire) - Len(uncles_rlp)) = uncles_rlp

\* a body whose uncle list encodes to more than 131072 bytes has been encoded
C17_Witness ==
    /\ input.kind = "body" /\ pc = "body_encoded"
    /\ input.v.uncles = <<Header1, HeaderBig>>
    /\ Len(wire) > MAX_ENCODED_UNCLES_LENGTH + 2 * BYTES_PER_LENGTH_OFFSET

\* C18: the trie keys RLP(i) of transactions_root differ for different
\* indices i (RLP(0) is the empty-string item 0x80, unlike every RLP(i) with
\* i >= 1), so no insertion replaces an earlier one: the trie the root is
\* taken of holds one entry per transaction, the i-th under RLP(i), also
\* when two transactions are the same.
C18_KeysDistinct ==
    (input.kind = "body" /\ pc = "transactions_root") =>
          /\ RlpUsize(0) = <<128>>
          /\ \A i \in 1..MaxIndex : RlpUsize(i) # RlpUsize(0)
          /\ Cardinality({RlpUsize(i) : i \in 0..MaxIndex}) = MaxIndex + 1
          /\ IsOk(out)
          /\ Cardinality(out.v.mpt_root) = Len(input.v.txs)
          /\ \A i \in 1..Len(input.v.txs) :
                <<RlpUsize(i - 1), TransactionEncode(input.v.txs[i])>> \in out.v.mpt_root

\* the root has been taken of a body holding the same transaction twice,
\* and the trie behind it holds two entries
C18_Witness ==
    /\ input.kind = "body" /\ pc = "transactions_root"
    /\ Len(input.v.txs) = 2 /\ input.v.txs[1] = input.v.txs[2]
    /\ Cardinality(out.v.mpt_root) = 2

\* C19: for every body b the bytes uncles_root hashes are the rlp_uncles
\* field of the container encoding of b: uncles_root(b) is Keccak256 of
\* EncodedBlockBodyParts::from(&b).rlp_uncles, which are the uncle bytes
\* found in as_ssz_bytes(b); so for a container that decodes to a body that
\* encodes back to the same uncle bytes, the root of that body's uncles is
\* Keccak256 of the container's uncle blob.
C19_UnclesRootFromWire ==
    /\ (input.kind = "body" /\ pc = "uncles_root") =>
          /\ out = Ok(Keccak256(PartsFromBody(input.v).rlp_uncles))
          /\ out = Ok(Keccak256(SszDecodeParts(AsSszBytes(input.v)).v.rlp_uncles))
    /\ (input.kind = "container" /\ pc = "body_decoded" /\ IsOk(out)) =>
          LET blob == SszDecodeParts(input.v).v.rlp_uncles
          IN PartsFromBody(out.v).rlp_uncles = blob =>
                UnclesRoot(out.v) = Ok(Keccak256(blob))

\* uncles_root has been taken of a body with two uncles and no transaction
C19_Witness ==
    /\ input.kind = "body" /\ pc = "uncles_root"
    /\ input.v.txs = <<>> /\ input.v.uncles = <<Header2, Header1>>
    /\ out = Ok(Keccak256(EncodeHeaderList(input.v.uncles)))

====
